---------------------------- MODULE Spec2Model ----------------------------
(***************************************************************************)
(* Model of src/debugger/debugger.c: the command-line debugger of the ARM  *)
(* core.  It covers the argument parser (_DVParse), the command table and  *)
(* dispatcher (_parse), the command handlers, the REPL (_commandLine), the *)
(* run loop (ARMDebuggerRun) with the breakpoint check, and the SIGINT     *)
(* handler (_breakIntoDefault).                                            *)
(*                                                                         *)
(* Strings are sequences of one-character strings.  A line is held without *)
(* its trailing newline; the blank line (line[0] == '\n') is <<>>.         *)
(***************************************************************************)
EXTENDS Integers, Sequences, FiniteSets, TLC

VARIABLES
    state,        \* debugger->state
    pc,           \* control position inside ARMDebuggerRun / _commandLine
    breakpoints,  \* debugger->breakpoints, head first
    watchpoints,  \* debugger->memoryShim.watchpoints, head first
    memory,       \* debugger->cpu->memory: "core" or "shim"
    gprs,         \* debugger->cpu->gprs
    cpsrT,        \* debugger->cpu->cpsr.t
    history,      \* the line editor's history, most recent first
    entry,        \* the dispatch that appended the most recent history
                  \* entry, and whether a typed line failed to be appended
                  \* since then (observation)
    last,         \* what the most recent step of the program did (observation)
    quitDone,     \* _quit has run (observation)
    pauseReq,     \* "inflight" or "boundary" from a SIGINT delivered while
                  \* Running in the free-run loop (with or without a step
                  \* in flight) until the REPL is entered, else "none"
                  \* (observation)
    resume,       \* "exited" from the end of the input stream until the run
                  \* entry point is called again, then "called" until a CPU
                  \* step runs or a line is read, else "none" (observation)
    hits,         \* "Hit breakpoint" notices printed so far, capped (observation)
    argString,    \* the parser's input, for the parser's own specification
    parsed        \* whether the parser was called on it, and its result

vars == <<state, pc, breakpoints, watchpoints, memory, gprs, cpsrT, history,
          entry, last, quitDone, pauseReq, resume, hits, argString, parsed>>

---------------------------------------------------------------------------
(* Bounds of the model *)

\* Number of space-separated tokens of a parser input.
MaxTokens == 2

---------------------------------------------------------------------------
(* Machine words *)

\* A 32-bit word (uint32_t, int32_t) is held as its two 16-bit halves, so
\* that arithmetic modulo 2^32 stays within the integers TLC can hold.
Half == 65536

WordOf(n) == [hi |-> (n \div Half) % Half, lo |-> n % Half]

\* w * k + d held at 2^32 - 1 when it does not fit in 32 bits
MulAddSaturating(w, k, d) ==
    LET l == w.lo * k + d
        h == w.hi * k + l \div Half
    IN  IF h >= Half
        THEN [hi |-> Half - 1, lo |-> Half - 1]
        ELSE [hi |-> h, lo |-> l % Half]

\* w * k + d modulo 2^32, for small k and d
MulAdd(w, k, d) ==
    LET l == w.lo * k + d
    IN  [hi |-> (w.hi * k + l \div Half) % Half, lo |-> l % Half]

\* arm.h
ARM_SP == 13
ARM_LR == 14
ARM_PC == 15
WORD_SIZE_ARM == 4
WORD_SIZE_THUMB == 2

\* enum ExecutionMode: cpsr.t is 0 in ARM (wide) mode, 1 in Thumb (compact).
MODE_ARM == 0
MODE_THUMB == 1

---------------------------------------------------------------------------
(* struct DebugVector *)

\* The Error token; its intValue is never written and never read.
ErrorDV == [type |-> "ERROR_TYPE", intValue |-> WordOf(0)]

IntDV(v) == [type |-> "INT_TYPE", intValue |-> v]

---------------------------------------------------------------------------
(* _DVParse *)

DecDigits == {"0", "1", "2", "3", "4", "5", "6", "7", "8", "9"}

UpperHex == {"A", "B", "C", "D", "E", "F"}

LowerHex == {"a", "b", "c", "d", "e", "f"}

\* token - '0'
DigitVal(c) ==
    CASE c = "0" -> 0 [] c = "1" -> 1 [] c = "2" -> 2 [] c = "3" -> 3
      [] c = "4" -> 4 [] c = "5" -> 5 [] c = "6" -> 6 [] c = "7" -> 7
      [] c = "8" -> 8 [] c = "9" -> 9

\* token - 'A' + 10 and token - 'a' + 10
LetterVal(c) ==
    CASE c \in {"A", "a"} -> 10 [] c \in {"B", "b"} -> 11
      [] c \in {"C", "c"} -> 12 [] c \in {"D", "d"} -> 13
      [] c \in {"E", "e"} -> 14 [] c \in {"F", "f"} -> 15

PS(st, cur) == [state |-> st, current |-> cur]

\* case PARSE_ROOT
ParseRoot(cur, token) ==
    CASE token = "r" -> PS("PARSE_EXPECT_REGISTER", cur)
      [] token = "p" -> PS("PARSE_EXPECT_PC", cur)
      [] token = "s" -> PS("PARSE_EXPECT_SP", cur)
      [] token = "l" -> PS("PARSE_EXPECT_LR", cur)
      [] token \in DecDigits \ {"0"} ->
             PS("PARSE_EXPECT_DECIMAL", WordOf(DigitVal(token)))
      [] token = "0" -> PS("PARSE_EXPECT_PREFIX", cur)
      [] token = "$" -> PS("PARSE_EXPECT_HEX", WordOf(0))
      [] OTHER -> PS("PARSE_ERROR", cur)

\* case PARSE_EXPECT_REGISTER
ParseRegister(cur, token) ==
    CASE token \in DecDigits \ {"1"} ->
             PS("PARSE_EXPECT_SUFFIX", gprs[DigitVal(token)])
      [] token = "1" -> PS("PARSE_EXPECT_REGISTER_2", cur)
      [] OTHER -> PS("PARSE_ERROR", cur)

\* case PARSE_EXPECT_REGISTER_2
ParseRegister2(cur, token) ==
    CASE token \in {"0", "1", "2", "3", "4", "5"} ->
             PS("PARSE_EXPECT_SUFFIX", gprs[DigitVal(token) + 10])
      [] OTHER -> PS("PARSE_ERROR", cur)

\* case PARSE_EXPECT_DECIMAL
ParseDecimal(cur, token) ==
    CASE token \in DecDigits ->
             PS("PARSE_EXPECT_DECIMAL", MulAdd(cur, 10, DigitVal(token)))
      [] OTHER -> PS("PARSE_ERROR", cur)

\* case PARSE_EXPECT_HEX
ParseHex(cur, token) ==
    CASE token \in DecDigits ->
             PS("PARSE_EXPECT_HEX", MulAdd(cur, 16, DigitVal(token)))
      [] token \in UpperHex \cup LowerHex ->
             PS("PARSE_EXPECT_HEX", MulAdd(cur, 16, LetterVal(token)))
      [] OTHER -> PS("PARSE_ERROR", cur)

\* case PARSE_EXPECT_PREFIX
ParsePrefix(cur, token) ==
    CASE token \in {"X", "x"} -> PS("PARSE_EXPECT_HEX", WordOf(0))
      [] OTHER -> PS("PARSE_ERROR", cur)

\* The switch on the parser state: one character consumed.
ParseChar(st, cur, token) ==
    CASE st = "PARSE_ROOT" -> ParseRoot(cur, token)
      [] st = "PARSE_EXPECT_LR" ->
             IF token = "r"
             THEN PS("PARSE_EXPECT_SUFFIX", gprs[ARM_LR])
             ELSE PS("PARSE_ERROR", cur)
      [] st = "PARSE_EXPECT_PC" ->
             IF token = "c"
             THEN PS("PARSE_EXPECT_SUFFIX", gprs[ARM_PC])
             ELSE PS("PARSE_ERROR", cur)
      [] st = "PARSE_EXPECT_SP" ->
             IF token = "p"
             THEN PS("PARSE_EXPECT_SUFFIX", gprs[ARM_SP])
             ELSE PS("PARSE_ERROR", cur)
      [] st = "PARSE_EXPECT_REGISTER" -> ParseRegister(cur, token)
      [] st = "PARSE_EXPECT_REGISTER_2" -> ParseRegister2(cur, token)
      [] st = "PARSE_EXPECT_DECIMAL" -> ParseDecimal(cur, token)
      [] st = "PARSE_EXPECT_HEX" -> ParseHex(cur, token)
      [] st = "PARSE_EXPECT_PREFIX" -> ParsePrefix(cur, token)
      [] st = "PARSE_EXPECT_SUFFIX" -> PS("PARSE_ERROR", cur)
      [] OTHER -> PS("PARSE_ERROR", cur)

\* The while loop of _DVParse from position i of str: it stops at the end of
\* the slice, at a space, or once the state is PARSE_ERROR.
RECURSIVE ParseLoop(_, _, _, _)
ParseLoop(str, i, st, cur) ==
    IF i <= Len(str) /\ str[i] # " " /\ st # "PARSE_ERROR"
    THEN LET n == ParseChar(st, cur, str[i])
         IN  ParseLoop(str, i + 1, n.state, n.current)
    ELSE [state |-> st, current |-> cur, pos |-> i]

\* What follows the loop: the token is an Error token exactly when the final
\* state is PARSE_ERROR; otherwise it is an Integer token holding `current`,
\* followed, when the loop stopped at a space, by the parse of the rest.
\* The result is the linked list as a sequence; the null pointer is <<>>.
RECURSIVE _DVParse(_)
_DVParse(str) ==
    IF Len(str) < 1
    THEN << >>
    ELSE LET r == ParseLoop(str, 1, "PARSE_ROOT", WordOf(0))
         IN  IF r.state = "PARSE_ERROR"
             THEN <<ErrorDV>>
             ELSE <<IntDV(r.current)>> \o
                  (IF r.pos <= Len(str) /\ str[r.pos] = " "
                   THEN _DVParse(SubSeq(str, r.pos + 1, Len(str)))
                   ELSE << >>)

---------------------------------------------------------------------------
(* Inputs of the parser *)

\* The register tokens of the grammar with the register each one names.
RegisterTable ==
    { <<<<"r", "0">>, 0>>,
      <<<<"r", "1">>, 1>>,
      <<<<"r", "2">>, 2>>,
      <<<<"r", "3">>, 3>>,
      <<<<"r", "4">>, 4>>,
      <<<<"r", "5">>, 5>>,
      <<<<"r", "6">>, 6>>,
      <<<<"r", "7">>, 7>>,
      <<<<"r", "8">>, 8>>,
      <<<<"r", "9">>, 9>>,
      <<<<"r", "1", "0">>, 10>>,
      <<<<"r", "1", "1">>, 11>>,
      <<<<"r", "1", "2">>, 12>>,
      <<<<"r", "1", "3">>, 13>>,
      <<<<"r", "1", "4">>, 14>>,
      <<<<"r", "1", "5">>, 15>>,
      <<<<"p", "c">>, 15>>,
      <<<<"s", "p">>, 13>>,
      <<<<"l", "r">>, 14>> }

RegisterTokens == { e[1] : e \in RegisterTable }

\* Tokens that are not register names: incomplete and over-long register
\* names, characters outside the grammar, decimal and hex literals, tokens
\* with a leading zero, bare hex prefixes, literals at and past 2^32, and
\* the empty token (a leading or a doubled space).
OtherTokens ==
    {<<>>, <<"r">>, <<"p">>, <<"s">>, <<"l">>, <<"r", "z">>,
     <<"r", "1", "6">>, <<"r", "0", "z">>, <<"p", "c", "z">>, <<"z">>,
     <<"z", "z">>, <<"5", "z">>, <<"5">>, <<"6">>, <<"1", "0">>, <<"0">>,
     <<"0", "0">>, <<"0", "1">>, <<"0", "1", "2", "3">>, <<"0", "x">>,
     <<"0", "X">>, <<"$">>, <<"0", "x", "1", "F">>, <<"0", "X", "1", "f">>,
     <<"$", "1", "f">>, <<"$", "1", "F">>, <<"0", "x", "z">>,
     <<"4", "2", "9", "4", "9", "6", "7", "2", "9", "5">>,
     <<"4", "2", "9", "4", "9", "6", "7", "2", "9", "6">>,
     <<"0", "x", "1", "0", "0", "0", "0", "0", "0", "0", "0">>,
     <<"$", "F", "F", "F", "F", "F", "F", "F", "E">>,
     <<"4", "2", "9", "4", "9", "6", "7", "3", "0", "1">>,
     <<"$", "1", "2", "3", "4", "5", "6", "7", "8", "9">>}

Tokens == RegisterTokens \cup OtherTokens

\* The tokens of ts separated by single spaces.
RECURSIVE Join(_)
Join(ts) ==
    IF Len(ts) = 0 THEN << >>
    ELSE IF Len(ts) = 1 THEN ts[1]
    ELSE ts[1] \o <<" ">> \o Join(Tail(ts))

TokenLists == UNION { [1..n -> Tokens] : n \in 0..MaxTokens }

ArgStrings == { Join(ts) : ts \in TokenLists }

\* Register values at reset: all different and none zero.
InitialGprs == [i \in 0..15 |-> WordOf(16 * (i + 1))]

---------------------------------------------------------------------------
(* The command table *)

_debuggerCommands ==
    << [name |-> <<"b">>, command |-> "_setBreakpoint"],
       [name |-> <<"b", "r", "e", "a", "k">>, command |-> "_setBreakpoint"],
       [name |-> <<"c">>, command |-> "_continue"],
       [name |-> <<"c", "o", "n", "t", "i", "n", "u", "e">>, command |-> "_continue"],
       [name |-> <<"i">>, command |-> "_printStatus"],
       [name |-> <<"i", "n", "f", "o">>, command |-> "_printStatus"],
       [name |-> <<"n">>, command |-> "_next"],
       [name |-> <<"n", "e", "x", "t">>, command |-> "_next"],
       [name |-> <<"p">>, command |-> "_print"],
       [name |-> <<"p", "/", "x">>, command |-> "_printHex"],
       [name |-> <<"p", "r", "i", "n", "t">>, command |-> "_print"],
       [name |-> <<"p", "r", "i", "n", "t", "/", "x">>, command |-> "_printHex"],
       [name |-> <<"q">>, command |-> "_quit"],
       [name |-> <<"q", "u", "i", "t">>, command |-> "_quit"],
       [name |-> <<"r", "b">>, command |-> "_readByte"],
       [name |-> <<"r", "h">>, command |-> "_readHalfword"],
       [name |-> <<"r", "w">>, command |-> "_readWord"],
       [name |-> <<"s", "t", "a", "t", "u", "s">>, command |-> "_printStatus"],
       [name |-> <<"w">>, command |-> "_setWatchpoint"],
       [name |-> <<"w", "a", "t", "c", "h">>, command |-> "_setWatchpoint"],
       [name |-> <<"x">>, command |-> "_breakInto"] >>

UpperAlpha ==
    <<"A", "B", "C", "D", "E", "F", "G", "H", "I", "J", "K", "L", "M",
      "N", "O", "P", "Q", "R", "S", "T", "U", "V", "W", "X", "Y", "Z">>

LowerAlpha ==
    <<"a", "b", "c", "d", "e", "f", "g", "h", "i", "j", "k", "l", "m",
      "n", "o", "p", "q", "r", "s", "t", "u", "v", "w", "x", "y", "z">>

\* tolower, as strncasecmp applies it to each byte
ToLower(c) ==
    IF \E i \in 1..26 : UpperAlpha[i] = c
    THEN LowerAlpha[CHOOSE i \in 1..26 : UpperAlpha[i] = c]
    ELSE c

\* The comparison without the test of the length
NameMatchesPrefix(name, cmd) ==
    /\ Len(cmd) <= Len(name)
    /\ \A i \in 1..Len(cmd) : ToLower(name[i]) = ToLower(cmd[i])

\* strlen(name) == cmdLength and strncasecmp(name, line, cmdLength) == 0
NameMatches(name, cmd) ==
    /\ Len(name) = Len(cmd)
    /\ \A i \in 1..Len(name) : ToLower(name[i]) = ToLower(cmd[i])

\* The scan of the table in declared order: the index of the first entry
\* that matches, or 0 when the scan reaches the end of the table.
Lookup(cmd) ==
    IF \E i \in 1..Len(_debuggerCommands) :
           NameMatches(_debuggerCommands[i].name, cmd)
    THEN CHOOSE i \in 1..Len(_debuggerCommands) :
           /\ NameMatches(_debuggerCommands[i].name, cmd)
           /\ \A j \in 1..(i - 1) :
                  ~NameMatches(_debuggerCommands[j].name, cmd)
    ELSE 0

---------------------------------------------------------------------------
(* Bounds of the state machine *)

\* Breakpoint records the list may hold (the code's list is unbounded).
MaxBreakpoints == 2

\* Watchpoint records the list may hold (the code's list is unbounded).
MaxWatchpoints == 2

\* History entries kept; stands for the H_SETSIZE of the line editor.
MaxHistory == 1

\* Cap of the count of hit notices.
MaxHits == 2

---------------------------------------------------------------------------
(* The CPU, an external collaborator *)

\* Values ARMRun may leave in the program counter.
PCValues == {WordOf(2), WordOf(6), WordOf(8)}

\* What one call of ARMRun may leave behind: a program counter and a mode.
CpuOutcomes == [pc : PCValues, t : {MODE_ARM, MODE_THUMB}]

\* The outcomes of the REPL specification: one past address 4, either mode.
ReplCpuOutcomes == [pc : {WordOf(8)}, t : {MODE_ARM, MODE_THUMB}]

\* enum DebuggerState, in declaration order.
DebuggerStates ==
    <<"DEBUGGER_PAUSED", "DEBUGGER_RUNNING", "DEBUGGER_EXITING",
      "DEBUGGER_SHUTDOWN">>

StateOrd(s) == CHOOSE i \in 1..Len(DebuggerStates) : DebuggerStates[i] = s

---------------------------------------------------------------------------
(* The command handlers.  A handler's effect is the record of the fields   *)
(* it leaves behind, with what it printed (out), the CPU steps it ran, the  *)
(* memory loads it made and the installations of the memory shim it made.  *)
(* cpu is what ARMRun leaves if it is called.                              *)

Same ==
    [state |-> state, breakpoints |-> breakpoints,
     watchpoints |-> watchpoints, memory |-> memory, gprs |-> gprs,
     cpsrT |-> cpsrT, out |-> << >>, steps |-> 0, loads |-> 0,
     installs |-> 0]

\* ARMRun(debugger->cpu) applied to an effect
ARMRun(e, cpu) ==
    [e EXCEPT !.gprs = [e.gprs EXCEPT ![ARM_PC] = cpu.pc],
              !.cpsrT = cpu.t,
              !.steps = e.steps + 1]

\* _printStatus: the register dump, the PSR and the line at PC, one load
_printStatus(e) ==
    [e EXCEPT !.out = e.out \o <<"status">>, !.loads = e.loads + 1]

MissingArgs(dv) == dv = << >> \/ dv[1].type # "INT_TYPE"

_continue(dv) == [Same EXCEPT !.state = "DEBUGGER_RUNNING"]

\* _next without its call of _printStatus
NextWithoutStatus(dv, cpu) == ARMRun(Same, cpu)

_next(dv, cpu) == _printStatus(ARMRun(Same, cpu))

_print(dv) == [Same EXCEPT !.out = <<"print">>]

_printHex(dv) == [Same EXCEPT !.out = <<"printHex">>]

_quit(dv) == [Same EXCEPT !.state = "DEBUGGER_SHUTDOWN"]

\* The load made before the test of the argument
ReadMemoryLoadFirst(dv) ==
    [Same EXCEPT
       !.out = IF MissingArgs(dv)
               THEN <<"Arguments missing">> ELSE <<"read">>,
       !.loads = 1]

\* _readByte, _readHalfword and _readWord differ in the width of the load
_readMemory(dv) ==
    IF MissingArgs(dv)
    THEN [Same EXCEPT !.out = <<"Arguments missing">>]
    ELSE [Same EXCEPT !.out = <<"read">>, !.loads = 1]

_setBreakpoint(dv) ==
    IF MissingArgs(dv)
    THEN [Same EXCEPT !.out = <<"Arguments missing">>]
    ELSE [Same EXCEPT !.breakpoints = <<dv[1].intValue>> \o breakpoints]

\* ARMDebuggerInstallMemoryShim(debugger) applied to an effect: the CPU's
\* memory interface becomes the shim
ARMDebuggerInstallMemoryShim(e) ==
    [e EXCEPT !.memory = "shim", !.installs = e.installs + 1]

\* _setWatchpoint without the test of the memory interface in use
SetWatchpointAlwaysInstall(dv) ==
    IF MissingArgs(dv)
    THEN [Same EXCEPT !.out = <<"Arguments missing">>]
    ELSE LET e == ARMDebuggerInstallMemoryShim(Same)
         IN  [e EXCEPT !.watchpoints = <<dv[1].intValue>> \o e.watchpoints]

_setWatchpoint(dv) ==
    IF MissingArgs(dv)
    THEN [Same EXCEPT !.out = <<"Arguments missing">>]
    ELSE LET e == IF memory # "shim"
                  THEN ARMDebuggerInstallMemoryShim(Same)
                  ELSE Same
         IN  [e EXCEPT !.watchpoints = <<dv[1].intValue>> \o e.watchpoints]

\* _breakInto raises SIGTRAP under _handleDeath, which only prints
_breakInto(dv) == [Same EXCEPT !.out = <<"No debugger attached!">>]

\* _debuggerCommands[i].command(debugger, dv)
Call(command, dv, cpu) ==
    CASE command = "_setBreakpoint" -> _setBreakpoint(dv)
      [] command = "_continue" -> _continue(dv)
      [] command = "_printStatus" -> _printStatus(Same)
      [] command = "_next" -> _next(dv, cpu)
      [] command = "_print" -> _print(dv)
      [] command = "_printHex" -> _printHex(dv)
      [] command = "_quit" -> _quit(dv)
      [] command \in {"_readByte", "_readHalfword", "_readWord"} ->
             _readMemory(dv)
      [] command = "_setWatchpoint" -> _setWatchpoint(dv)
      [] command = "_breakInto" -> _breakInto(dv)

---------------------------------------------------------------------------
(* _parse *)

\* strchr(line, ' '): the position of the first space, 0 when there is none
FirstSpace(line) ==
    IF \E i \in 1..Len(line) : line[i] = " "
    THEN CHOOSE i \in 1..Len(line) :
           line[i] = " " /\ \A j \in 1..(i - 1) : line[j] # " "
    ELSE 0

\* The command token: the line up to its first space, or all of it
CommandOf(line) ==
    IF FirstSpace(line) = 0 THEN line
    ELSE SubSeq(line, 1, FirstSpace(line) - 1)

\* The argument remainder: what follows the first space
RemainderOf(line) ==
    IF FirstSpace(line) = 0 THEN << >>
    ELSE SubSeq(line, FirstSpace(line) + 1, Len(line))

\* dv as _parse holds it: the null pointer when the line has no space
ArgsOf(line) ==
    IF FirstSpace(line) = 0 THEN << >> ELSE _DVParse(RemainderOf(line))

\* The whole of _parse: the value it returns, the handler it called, the
\* number of tokens of the list the handler received, and the effect.  Only
\* the head of dv is looked at before the table is scanned.
_parse(line, cpu) ==
    LET dv == ArgsOf(line)
        i == Lookup(CommandOf(line))
    IN  IF dv # << >> /\ dv[1].type = "ERROR_TYPE"
        THEN [ret |-> 0, command |-> "none", nargs |-> 0,
              eff |-> [Same EXCEPT !.out = <<"Parse error">>]]
        ELSE IF i # 0
        THEN [ret |-> 1, command |-> _debuggerCommands[i].command,
              nargs |-> Len(dv),
              eff |-> Call(_debuggerCommands[i].command, dv, cpu)]
        ELSE [ret |-> 0, command |-> "none", nargs |-> 0,
              eff |-> [Same EXCEPT !.out = <<"Command not found">>]]

---------------------------------------------------------------------------
(* The lines typed at the prompt *)

\* The lines of the run-loop specification: the blank line, continue, next,
\* quit, and two breakpoints, one of them two below 2^32.
Lines ==
    { << >>,
      <<"c">>, <<"n">>, <<"q">>,
      <<"b", " ", "4">>,
      <<"b", " ", "$", "F", "F", "F", "F", "F", "F", "F", "E">> }

\* The lines of the REPL specification: commands with no argument, with one
\* argument, with two, with a malformed first or last argument, and a name
\* that is in no table entry.
ReplLines ==
    { << >>,
      <<"c">>, <<"n">>, <<"q">>, <<"i">>, <<"x">>,
      <<"b">>,
      <<"b", " ", "4">>,
      <<"b", " ", "z", "z">>,
      <<"b", " ", "4", " ", "z", "z">>,
      <<"b", " ", "4", " ", "6">>,
      <<"w">>,
      <<"w", " ", "4">>,
      <<"w", " ", "4", " ", "6">>,
      <<"b", "r", "e", "a", "k">>,
      <<"w", "a", "t", "c", "h">>,
      <<"r", "b">>, <<"r", "h">>, <<"r", "w">>,
      <<"r", "b", " ", "4">>,
      <<"p", " ", "5", " ", "1", "0">>,
      <<"f", "o", "o">>,
      <<"f", "o", "o", " ", "4", " ", "z", "z">> }

---------------------------------------------------------------------------
(* Observations *)

\* What the most recent step of the program did: the operation, the line it
\* dispatched, whether the line el_gets returned was blank, the handler it
\* called, what it printed, the CPU steps it ran, the memory loads it made
\* and the installations of the memory shim it made.
Did(op) ==
    [op |-> op, line |-> << >>, blank |-> FALSE, command |-> "none",
     nargs |-> 0, out |-> << >>, steps |-> 0, loads |-> 0, installs |-> 0]

\* No history entry yet
NoEntry == [command |-> "none", nargs |-> 0, failedAfter |-> FALSE]

FreeRunPcs == {"loop_plain", "run_plain", "loop_check", "run_check", "check"}

Min(a, b) == IF a < b THEN a ELSE b

Take(s, n) == SubSeq(s, 1, Min(Len(s), n))

---------------------------------------------------------------------------
(* ARMDebuggerInit *)

Init ==
    /\ state = "DEBUGGER_PAUSED"
    /\ pc = "idle"
    /\ breakpoints = << >>
    /\ watchpoints = << >>
    /\ memory = "core"
    /\ gprs = InitialGprs
    /\ cpsrT \in {MODE_ARM, MODE_THUMB}
    /\ history = << >>
    /\ entry = NoEntry
    /\ last = Did("init")
    /\ quitDone = FALSE
    /\ pauseReq = "none"
    /\ resume = "none"
    /\ hits = 0
    /\ argString = << >>
    /\ parsed = [done |-> FALSE, dv |-> << >>]

---------------------------------------------------------------------------
(* _breakIntoDefault: SIGINT, delivered at any time *)

_breakIntoDefault ==
    /\ state' = "DEBUGGER_PAUSED"
    /\ pauseReq' =
           IF state = "DEBUGGER_RUNNING" /\ pc \in {"run_plain", "run_check"}
           THEN "inflight"
           ELSE IF state = "DEBUGGER_RUNNING" /\ pc \in FreeRunPcs
           THEN "boundary"
           ELSE pauseReq
    /\ UNCHANGED <<pc, breakpoints, watchpoints, memory, gprs, cpsrT,
                   history, entry, last, quitDone, resume, hits, argString,
                   parsed>>

---------------------------------------------------------------------------
(* ARMDebuggerRun *)

\* The call, and the test of line 603
RunCall ==
    /\ pc = "idle"
    /\ pc' = IF state = "DEBUGGER_EXITING" THEN "convert" ELSE "outer"
    /\ last' = Did("call")
    /\ resume' = IF resume = "exited" THEN "called" ELSE resume
    /\ UNCHANGED <<state, breakpoints, watchpoints, memory, gprs, cpsrT,
                   history, entry, quitDone, pauseReq, hits, argString,
                   parsed>>

\* Line 604
RunConvert ==
    /\ pc = "convert"
    /\ state' = "DEBUGGER_RUNNING"
    /\ pc' = "outer"
    /\ last' = Did("convert")
    /\ UNCHANGED <<breakpoints, watchpoints, memory, gprs, cpsrT,
                   history, entry, quitDone, pauseReq, resume, hits,
                   argString, parsed>>

\* Line 606: while (debugger->state < DEBUGGER_EXITING)
RunOuter ==
    /\ pc = "outer"
    /\ pc' = IF StateOrd(state) < StateOrd("DEBUGGER_EXITING")
             THEN "select" ELSE "idle"
    /\ last' = Did("outer")
    /\ UNCHANGED <<state, breakpoints, watchpoints, memory, gprs, cpsrT,
                   history, entry, quitDone, pauseReq, resume, hits,
                   argString, parsed>>

\* Line 607: if (!debugger->breakpoints)
RunSelect ==
    /\ pc = "select"
    /\ pc' = IF breakpoints = << >> THEN "loop_plain" ELSE "loop_check"
    /\ last' = Did("select")
    /\ UNCHANGED <<state, breakpoints, watchpoints, memory, gprs, cpsrT,
                   history, entry, quitDone, pauseReq, resume, hits,
                   argString, parsed>>

\* The loop with breakpoints calling _checkBreakpoints before ARMRun
LoopTestCheckFirst(run) ==
    IF state = "DEBUGGER_RUNNING"
    THEN IF run = "run_check" THEN "check" ELSE run
    ELSE "switch"

\* The position after the test of an inner loop, lines 608 and 612
LoopTest(run) == IF state = "DEBUGGER_RUNNING" THEN run ELSE "switch"

\* Lines 608 and 612: while (debugger->state == DEBUGGER_RUNNING)
RunLoop ==
    /\ pc \in {"loop_plain", "loop_check"}
    /\ pc' = IF pc = "loop_plain"
             THEN LoopTest("run_plain") ELSE LoopTest("run_check")
    /\ last' = Did("loop")
    /\ UNCHANGED <<state, breakpoints, watchpoints, memory, gprs, cpsrT,
                   history, entry, quitDone, pauseReq, resume, hits,
                   argString, parsed>>

\* Lines 609 and 613: ARMRun(debugger->cpu)
RunStep(cpu) ==
    /\ pc \in {"run_plain", "run_check"}
    /\ gprs' = ARMRun(Same, cpu).gprs
    /\ cpsrT' = ARMRun(Same, cpu).cpsrT
    /\ pc' = IF pc = "run_plain" THEN "loop_plain" ELSE "check"
    /\ last' = [Did("step") EXCEPT !.steps = 1]
    /\ pauseReq' = IF pauseReq = "inflight" THEN "boundary" ELSE pauseReq
    /\ resume' = IF resume = "called" THEN "none" ELSE resume
    /\ UNCHANGED <<state, breakpoints, watchpoints, memory, history, entry,
                   quitDone, hits, argString, parsed>>

\* The instruction length taken as that of the wide encoding in either mode
InstructionLengthWide(mode) == WORD_SIZE_ARM

\* instructionLength of _checkBreakpoints
InstructionLength(mode) ==
    IF mode = MODE_ARM THEN WORD_SIZE_ARM ELSE WORD_SIZE_THUMB

\* The scan without its break: every matching record is reached
BreakpointsHitNoBreak(list, mode, pcval) ==
    { i \in 1..Len(list) :
        MulAdd(list[i], 1, InstructionLength(mode)) = pcval }

\* The scan of _checkBreakpoints: the records, in list order, at which the
\* loop body's test is true and which the scan reaches.  The break leaves
\* the loop at the first.
BreakpointsHit(list, mode, pcval) ==
    LET match(i) == MulAdd(list[i], 1, InstructionLength(mode)) = pcval
    IN  { i \in 1..Len(list) :
            match(i) /\ \A j \in 1..(i - 1) : ~match(j) }

\* _checkBreakpoints writing the state on both outcomes of the scan, Running
\* when nothing matched
CheckBreakpointsResuming ==
    LET n == Cardinality(BreakpointsHit(breakpoints, cpsrT, gprs[ARM_PC]))
    IN  [Same EXCEPT
           !.state = IF n > 0 THEN "DEBUGGER_PAUSED" ELSE "DEBUGGER_RUNNING",
           !.out = [k \in 1..n |-> "Hit breakpoint"]]

\* _checkBreakpoints as an effect
_checkBreakpoints ==
    LET n == Cardinality(BreakpointsHit(breakpoints, cpsrT, gprs[ARM_PC]))
    IN  [Same EXCEPT
           !.state = IF n > 0 THEN "DEBUGGER_PAUSED" ELSE state,
           !.out = [k \in 1..n |-> "Hit breakpoint"]]

\* Line 614
RunCheck ==
    /\ pc = "check"
    /\ state' = _checkBreakpoints.state
    /\ breakpoints' = _checkBreakpoints.breakpoints
    /\ pc' = "loop_check"
    /\ last' = [Did("check") EXCEPT !.out = _checkBreakpoints.out]
    /\ hits' = Min(hits + Len(_checkBreakpoints.out), MaxHits)
    /\ UNCHANGED <<watchpoints, memory, gprs, cpsrT, history, entry, quitDone,
                   pauseReq, resume, argString, parsed>>

\* Line 617: the switch on the state that ended the inner loop
SwitchTarget ==
    CASE state = "DEBUGGER_RUNNING" -> "outer"
      [] state = "DEBUGGER_PAUSED" -> "cmdline"
      [] OTHER -> "idle"

RunSwitch ==
    /\ pc = "switch"
    /\ pc' = SwitchTarget
    /\ last' = Did("switch")
    /\ pauseReq' = IF SwitchTarget = "cmdline" THEN "none" ELSE pauseReq
    /\ UNCHANGED <<state, breakpoints, watchpoints, memory, gprs, cpsrT,
                   history, entry, quitDone, resume, hits, argString, parsed>>

---------------------------------------------------------------------------
(* _commandLine *)

\* Line 527: _printStatus on entry
CommandLineEnter ==
    /\ pc = "cmdline"
    /\ pc' = "repl"
    /\ last' = [Did("cmdline") EXCEPT
                  !.out = _printStatus(Same).out,
                  !.loads = _printStatus(Same).loads]
    /\ UNCHANGED <<state, breakpoints, watchpoints, memory, gprs, cpsrT,
                   history, entry, quitDone, pauseReq, resume, hits,
                   argString, parsed>>

\* Line 530: while (debugger->state == DEBUGGER_PAUSED); leaving the loop
\* returns to the switch, whose break leads to the test of line 606
CommandLineLoop ==
    /\ pc = "repl"
    /\ pc' = IF state = "DEBUGGER_PAUSED" THEN "read" ELSE "outer"
    /\ last' = Did("repl")
    /\ UNCHANGED <<state, breakpoints, watchpoints, memory, gprs, cpsrT,
                   history, entry, quitDone, pauseReq, resume, hits,
                   argString, parsed>>

\* Lines 531-535: el_gets reports the end of the stream
CommandLineEof ==
    /\ pc = "read"
    /\ state' = "DEBUGGER_EXITING"
    /\ pc' = "outer"
    /\ last' = Did("eof")
    /\ resume' = "exited"
    /\ UNCHANGED <<breakpoints, watchpoints, memory, gprs, cpsrT,
                   history, entry, quitDone, pauseReq, hits, argString,
                   parsed>>

\* The line lines 536-544 hand to _parse: the most recent history entry for
\* a blank line, the typed line otherwise; << >> when nothing is parsed.
Dispatched(typed) ==
    IF typed # << >> THEN typed
    ELSE IF history # << >> THEN history[1] ELSE << >>

\* history(H_ENTER) after every typed line, whatever _parse returned
HistoryAfterAlways(typed, ret) ==
    IF typed # << >>
    THEN Take(<<typed>> \o history, MaxHistory)
    ELSE history

\* history(H_ENTER) after a typed line whose _parse returned 1
HistoryAfter(typed, ret) ==
    IF typed # << >> /\ ret = 1
    THEN Take(<<typed>> \o history, MaxHistory)
    ELSE history

\* The observation of the dispatch behind the most recent history entry
EntryAfter(typed, r) ==
    IF typed = << >> THEN entry
    ELSE IF r.ret = 1
    THEN [command |-> r.command, nargs |-> r.nargs, failedAfter |-> FALSE]
    ELSE [entry EXCEPT !.failedAfter = TRUE]

\* What lines 536-544 do with the line el_gets returned: the value of
\* _parse, the handler called and the effect; nothing for a blank line
\* when the history is empty.
Outcome(typed, cpu) ==
    IF Dispatched(typed) = << >>
    THEN [ret |-> 0, command |-> "none", nargs |-> 0, eff |-> Same]
    ELSE _parse(Dispatched(typed), cpu)

\* The outcomes of ARMRun a line can meet: those of one call when the line
\* dispatches to _next, which alone calls it.
CpuFor(typed, outcomes) ==
    LET i == Lookup(CommandOf(Dispatched(typed)))
    IN  IF i # 0 /\ _debuggerCommands[i].command = "_next"
        THEN outcomes
        ELSE {CHOOSE c \in outcomes : TRUE}

\* Lines 531-544: el_gets returns a line, which is dispatched
CommandLineRead(typed, cpu) ==
    /\ pc = "read"
    /\ \E r \in {Outcome(typed, cpu)} :
           /\ Len(r.eff.breakpoints) <= MaxBreakpoints
           /\ Len(r.eff.watchpoints) <= MaxWatchpoints
           /\ state' = r.eff.state
           /\ breakpoints' = r.eff.breakpoints
           /\ watchpoints' = r.eff.watchpoints
           /\ memory' = r.eff.memory
           /\ gprs' = r.eff.gprs
           /\ cpsrT' = r.eff.cpsrT
           /\ history' = HistoryAfter(typed, r.ret)
           /\ entry' = EntryAfter(typed, r)
           /\ last' = [Did("line") EXCEPT
                         !.line = Dispatched(typed),
                         !.blank = (typed = << >>), !.command = r.command,
                         !.nargs = r.nargs,
                         !.out = r.eff.out, !.steps = r.eff.steps,
                         !.loads = r.eff.loads,
                         !.installs = r.eff.installs]
           /\ quitDone' = (quitDone \/ r.command = "_quit")
    /\ pc' = "repl"
    /\ resume' = "none"
    /\ UNCHANGED <<pauseReq, hits, argString, parsed>>

---------------------------------------------------------------------------
(* The debugger under its caller, its user and SIGINT *)

Next ==
    \/ _breakIntoDefault
    \/ RunCall
    \/ RunConvert
    \/ RunOuter
    \/ RunSelect
    \/ RunLoop
    \/ \E cpu \in CpuOutcomes : RunStep(cpu)
    \/ RunCheck
    \/ RunSwitch
    \/ CommandLineEnter
    \/ CommandLineLoop
    \/ CommandLineEof
    \/ \E typed \in Lines : \E cpu \in CpuFor(typed, CpuOutcomes) :
           CommandLineRead(typed, cpu)

Spec == Init /\ [][Next]_vars

---------------------------------------------------------------------------
(* The same debugger under a user who types any of the lines of ReplLines, *)
(* with a CPU of fewer outcomes                                            *)

ReplNext ==
    \/ _breakIntoDefault
    \/ RunCall
    \/ RunConvert
    \/ RunOuter
    \/ RunSelect
    \/ RunLoop
    \/ \E cpu \in ReplCpuOutcomes : RunStep(cpu)
    \/ RunCheck
    \/ RunSwitch
    \/ CommandLineEnter
    \/ CommandLineLoop
    \/ CommandLineEof
    \/ \E typed \in ReplLines : \E cpu \in CpuFor(typed, ReplCpuOutcomes) :
           CommandLineRead(typed, cpu)

ReplSpec == Init /\ [][ReplNext]_vars

---------------------------------------------------------------------------
(* The same debugger at the prompt: under a user who sets breakpoints and  *)
(* watchpoints, continues, leaves out the argument of each command that    *)
(* needs one, types names that are in no table entry, and repeats          *)

PromptLines ==
    { << >>,
      <<"c">>,
      <<"b", " ", "4">>,
      <<"w", " ", "4">>,
      <<"b">>, <<"b", "r", "e", "a", "k">>,
      <<"w">>, <<"w", "a", "t", "c", "h">>,
      <<"r", "b">>, <<"r", "h">>, <<"r", "w">>,
      <<"f", "o", "o">>,
      <<"f", "o", "o", " ", "4">> }

PromptNext ==
    \/ _breakIntoDefault
    \/ RunCall
    \/ RunConvert
    \/ RunOuter
    \/ RunSelect
    \/ RunLoop
    \/ \E cpu \in ReplCpuOutcomes : RunStep(cpu)
    \/ RunCheck
    \/ RunSwitch
    \/ CommandLineEnter
    \/ CommandLineLoop
    \/ CommandLineEof
    \/ \E typed \in PromptLines : \E cpu \in CpuFor(typed, ReplCpuOutcomes) :
           CommandLineRead(typed, cpu)

PromptSpec == Init /\ [][PromptNext]_vars

---------------------------------------------------------------------------
(* The dispatcher on its own: one line read at the first prompt, its       *)
(* command token a table name, a table name in capitals or capitalised, a  *)
(* table name less its last character or with one more, or another word    *)

\* toupper
ToUpper(c) ==
    IF \E i \in 1..26 : LowerAlpha[i] = c
    THEN UpperAlpha[CHOOSE i \in 1..26 : LowerAlpha[i] = c]
    ELSE c

TableNames ==
    { _debuggerCommands[i].name : i \in 1..Len(_debuggerCommands) }

CommandTokens ==
    TableNames
      \cup { [i \in 1..Len(n) |-> ToUpper(n[i])] : n \in TableNames }
      \cup { [i \in 1..Len(n) |-> IF i = 1 THEN ToUpper(n[i]) ELSE n[i]] :
                n \in TableNames }
      \cup { SubSeq(n, 1, Len(n) - 1) : n \in { m \in TableNames : Len(m) > 1 } }
      \cup { n \o <<"s">> : n \in TableNames }
      \cup { n \o <<n[Len(n)]>> : n \in TableNames }
      \cup { <<"f", "o", "o">>, <<"z">>, <<"/">> }

LookupLines ==
    CommandTokens \cup { t \o <<" ", "4">> : t \in CommandTokens }

\* The state at the first prompt, as the run entry point reaches it from
\* the state after construction
LookupInit ==
    /\ state = "DEBUGGER_PAUSED"
    /\ pc = "read"
    /\ breakpoints = << >>
    /\ watchpoints = << >>
    /\ memory = "core"
    /\ gprs = InitialGprs
    /\ cpsrT \in {MODE_ARM, MODE_THUMB}
    /\ history = << >>
    /\ entry = NoEntry
    /\ last = Did("repl")
    /\ quitDone = FALSE
    /\ pauseReq = "none"
    /\ resume = "none"
    /\ hits = 0
    /\ argString = << >>
    /\ parsed = [done |-> FALSE, dv |-> << >>]

LookupNext ==
    \E typed \in LookupLines : \E cpu \in CpuFor(typed, ReplCpuOutcomes) :
        CommandLineRead(typed, cpu)

LookupSpec == LookupInit /\ [][LookupNext]_vars

---------------------------------------------------------------------------
(* The parser on its own: _DVParse called once on an argument string *)

ParseInit ==
    /\ argString \in ArgStrings
    /\ parsed = [done |-> FALSE, dv |-> << >>]
    /\ state = "DEBUGGER_PAUSED"
    /\ pc = "read"
    /\ breakpoints = << >>
    /\ watchpoints = << >>
    /\ memory = "core"
    /\ gprs = InitialGprs
    /\ cpsrT = MODE_ARM
    /\ history = << >>
    /\ entry = NoEntry
    /\ last = Did("init")
    /\ quitDone = FALSE
    /\ pauseReq = "none"
    /\ resume = "none"
    /\ hits = 0

ParseCall ==
    /\ ~parsed.done
    /\ parsed' = [done |-> TRUE, dv |-> _DVParse(argString)]
    /\ UNCHANGED <<state, pc, breakpoints, watchpoints, memory, gprs, cpsrT,
                   history, entry, last, quitDone, pauseReq, resume, hits,
                   argString>>

ParseNext == ParseCall

ParseSpec == ParseInit /\ [][ParseNext]_vars

---------------------------------------------------------------------------
(* Vocabulary of the properties *)

\* The characters the grammar of arguments uses
GrammarChars ==
    {"r", "p", "s", "l", "c", "x", "X", "$"}
        \cup DecDigits \cup UpperHex \cup LowerHex

\* Some token of str holds a character outside the grammar
HasOutsideChar(str) ==
    \E i \in 1..Len(str) : str[i] \notin GrammarChars \cup {" "}

\* The step is the dispatch of a line by _commandLine
LineStep == pc = "read" /\ pc' = "repl"

\* The step is a call of ARMRun in a free-run loop
FreeRunStep == pc \in {"run_plain", "run_check"} /\ pc' # pc

\* The step is the call of _checkBreakpoints in the free-run loop
CheckStep == pc = "check" /\ pc' = "loop_check"

\* Some record address A of the list has A + len == PC in 32-bit unsigned
\* arithmetic
AddressMatches(list, len, pcval) ==
    \E i \in 1..Len(list) :
        /\ (list[i].lo + len) % Half = pcval.lo
        /\ (list[i].hi + (list[i].lo + len) \div Half) % Half = pcval.hi

\* The breakpoint match rule: the length is 4 in the wide encoding and 2
\* in the compact one, by the mode flag
RuleMatches ==
    AddressMatches(breakpoints, IF cpsrT = MODE_ARM THEN 4 ELSE 2,
                   gprs[ARM_PC])

---------------------------------------------------------------------------
(* C1 *)

\* C1: parsing is atomic.  Whenever an argument string holds a character
\* outside the grammar in any of its tokens, the parser's result is exactly
\* one Error token (so no Integer token comes with it).
C1_AtomicParse ==
    parsed.done /\ HasOutsideChar(argString) => parsed.dv = <<ErrorDV>>

---------------------------------------------------------------------------
(* C2 *)

\* C2: in the REPL, a line whose argument remainder holds a malformed token
\* at any position reports "Parse error" and no handler is called, whatever
\* the command name.
C2_ParseErrorSkipsDispatch ==
    last.op = "line" /\ HasOutsideChar(RemainderOf(last.line))
        => last.out = <<"Parse error">> /\ last.command = "none"

---------------------------------------------------------------------------
(* C3 *)

\* C3: once quit has run, the state stays Shutdown, no further line is
\* dispatched and no further CPU step is executed, whatever SIGINT and the
\* caller of the run entry point do.
C3_ShutdownTerminal ==
    [][quitDone =>
          /\ state' = "DEBUGGER_SHUTDOWN"
          /\ ~LineStep
          /\ ~FreeRunStep]_vars

---------------------------------------------------------------------------
(* C4 *)

\* C4: a SIGINT delivered while the state is Running inside the free-run
\* loop is never lost.  From its delivery until the REPL is entered the
\* state is Paused; the control is at the step that was in flight at the
\* delivery or, that step done, on the way from the loop test to the switch
\* that enters the REPL, never at the start of another step and never out of
\* the run entry point.
C4_PauseAtStepBoundary ==
    pauseReq # "none" =>
        /\ state = "DEBUGGER_PAUSED"
        /\ pauseReq = "inflight" => pc \in {"run_plain", "run_check"}
        /\ pauseReq = "boundary" =>
               pc \in {"loop_plain", "loop_check", "check", "switch"}

\* A SIGINT was delivered during a free run without breakpoints, the step
\* in flight is done and the switch is about to enter the REPL.
C4_Witness ==
    /\ pauseReq = "boundary"
    /\ pc = "switch"
    /\ breakpoints = << >>
    /\ last.op = "loop"

---------------------------------------------------------------------------
(* C5 *)

\* C5: in a free run with a non-empty breakpoint list every CPU step is
\* followed by the breakpoint check, and the check prints the hit notice
\* and pauses if and only if some record address A has A + L == PC modulo
\* 2^32, with L = 4 in the wide encoding and L = 2 in the compact one by the
\* mode flag the step left; with no such record it leaves the state alone.
C5_BreakpointRule ==
    [][/\ pc = "run_check" /\ pc' # pc => pc' = "check"
       /\ pc = "select" /\ pc' # pc =>
              (pc' = "loop_check" <=> breakpoints # << >>)
       /\ CheckStep =>
              IF RuleMatches
              THEN /\ state' = "DEBUGGER_PAUSED"
                   /\ last'.out = <<"Hit breakpoint">>
              ELSE /\ state' = state
                   /\ last'.out = << >>]_vars

\* A check in the compact encoding found no match although a record has
\* A + 4 == PC.
C5_Witness ==
    /\ last.op = "check"
    /\ last.out = << >>
    /\ cpsrT = MODE_THUMB
    /\ AddressMatches(breakpoints, 4, gprs[ARM_PC])
    /\ state = "DEBUGGER_RUNNING"

---------------------------------------------------------------------------
(* C6 *)

\* C6: breakpoints are not one-shot and a hit is reported once.  Every
\* breakpoint check leaves the list unchanged; whenever the rule matches,
\* however many hits came before and however many records match, the check
\* pauses and prints exactly one notice.
C6_NotOneShot ==
    [][CheckStep =>
          /\ breakpoints' = breakpoints
          /\ Len(last'.out) <= 1
          /\ RuleMatches =>
                 /\ state' = "DEBUGGER_PAUSED"
                 /\ last'.out = <<"Hit breakpoint">>
                 /\ hits' = Min(hits + 1, MaxHits)]_vars

\* A second arrival at an address registered twice: one notice.
C6_Witness ==
    /\ last.op = "check"
    /\ last.out = <<"Hit breakpoint">>
    /\ hits >= 2
    /\ Len(breakpoints) >= 2
    /\ breakpoints[1] = breakpoints[2]
    /\ RuleMatches

---------------------------------------------------------------------------
(* C7 *)

\* C7: the next command runs exactly one CPU step, prints the status once
\* and nothing else (no hit notice), and leaves the state Paused with the
\* REPL at its loop test, about to read the next line.
C7_NextStepsOnce ==
    last.op = "line" /\ last.command = "_next" =>
        /\ last.steps = 1
        /\ last.out = <<"status">>
        /\ state = "DEBUGGER_PAUSED"
        /\ pc = "repl"

\* next has stepped onto a program counter that a breakpoint matches.
C7_Witness ==
    /\ last.op = "line"
    /\ last.command = "_next"
    /\ breakpoints # << >>
    /\ RuleMatches

---------------------------------------------------------------------------
(* C8 *)

\* The argument sequence is exactly one Integer token
ExactlyOneInt(dv) == Len(dv) = 1 /\ dv[1].type = "INT_TYPE"

\* The line's command token names setBreakpoint or setWatchpoint
IsSetCommand(line) ==
    LET i == Lookup(CommandOf(line))
    IN  i # 0 /\ _debuggerCommands[i].command
                    \in {"_setBreakpoint", "_setWatchpoint"}

\* C8: setBreakpoint and setWatchpoint change their list only when given
\* exactly one Integer token.  With no token, more than one token or a
\* non-Integer token in the sequence the breakpoint list, the watchpoint
\* list and the memory interface stay as they are, and a handler that was
\* called reports the missing arguments.
C8_ExactlyOneArgument ==
    [][LineStep /\ IsSetCommand(last'.line)
          /\ ~ExactlyOneInt(ArgsOf(last'.line)) =>
              /\ UNCHANGED <<breakpoints, watchpoints, memory>>
              /\ last'.command # "none" =>
                     last'.out = <<"Arguments missing">>]_vars

---------------------------------------------------------------------------
(* C9 *)

\* C9: each of the 19 register tokens parses to one Integer token holding
\* the current value of the register it names.
C9_RegisterTokens ==
    parsed.done =>
        \A e \in RegisterTable :
            argString = e[1] => parsed.dv = <<IntDV(gprs[e[2]])>>

---------------------------------------------------------------------------
(* C10 *)

HexDigits == DecDigits \cup UpperHex \cup LowerHex

\* The token is 0x or 0X followed by hex digits only
HasHexPrefix(tok) ==
    /\ Len(tok) >= 2
    /\ tok[1] = "0"
    /\ tok[2] \in {"x", "X"}
    /\ \A i \in 3..Len(tok) : tok[i] \in HexDigits

\* C10: a single token that begins with 0 and is not of the hex form is
\* rejected with an Error token.
C10_LeadingZeroRejected ==
    (/\ parsed.done
     /\ Len(argString) >= 1
     /\ argString[1] = "0"
     /\ \A i \in 1..Len(argString) : argString[i] # " "
     /\ ~HasHexPrefix(argString))
        => parsed.dv = <<ErrorDV>>

---------------------------------------------------------------------------
(* Literals as numbers *)

\* The hex digits in the order of their values, letters in lower case
HexOrder ==
    <<"0", "1", "2", "3", "4", "5", "6", "7", "8", "9",
      "a", "b", "c", "d", "e", "f">>

\* The value of a decimal or hex digit, whatever the case of a letter
NibbleOf(c) == (CHOOSE i \in 1..16 : HexOrder[i] = ToLower(c)) - 1

\* limbs * k + carry, on a natural number held exactly as its base-65536
\* limbs, least significant first, for small k and carry
RECURSIVE LimbsMulAdd(_, _, _)
LimbsMulAdd(limbs, k, carry) ==
    IF limbs = << >>
    THEN IF carry = 0 THEN << >> ELSE <<carry>>
    ELSE LET l == limbs[1] * k + carry
         IN  <<l % Half>> \o LimbsMulAdd(Tail(limbs), k, l \div Half)

\* The natural number the digits denote in the base, exactly
RECURSIVE LimbsOf(_, _)
LimbsOf(digits, base) ==
    IF digits = << >> THEN << >>
    ELSE LimbsMulAdd(LimbsOf(SubSeq(digits, 1, Len(digits) - 1), base),
                     base, NibbleOf(digits[Len(digits)]))

\* The number the digits denote in the base, modulo 2^32
ValueMod32(digits, base) ==
    LET limbs == LimbsOf(digits, base)
    IN  [hi |-> IF Len(limbs) >= 2 THEN limbs[2] ELSE 0,
         lo |-> IF Len(limbs) >= 1 THEN limbs[1] ELSE 0]

\* The string is one token: it holds no space
OneToken(str) == \A i \in 1..Len(str) : str[i] # " "

\* The length of the token's hex prefix: 1 for $, 2 for 0x and 0X, else 0
HexPrefixLen(tok) ==
    IF Len(tok) >= 1 /\ tok[1] = "$" THEN 1
    ELSE IF Len(tok) >= 2 /\ tok[1] = "0" /\ tok[2] \in {"x", "X"} THEN 2
    ELSE 0

\* What follows the hex prefix
AfterHexPrefix(tok) == SubSeq(tok, HexPrefixLen(tok) + 1, Len(tok))

\* The token is a hex prefix followed by hex digits only, possibly none
IsHexForm(tok) ==
    /\ HexPrefixLen(tok) > 0
    /\ \A i \in 1..Len(AfterHexPrefix(tok)) :
           AfterHexPrefix(tok)[i] \in HexDigits

---------------------------------------------------------------------------
(* C11 *)

\* C11: a hex literal needs at least one digit.  A single token 0x, 0X or $
\* followed by one or more hex digits parses to one Integer token with the
\* value of the digits, letters of either case giving the same value; a bare
\* prefix with no digit after it parses to one Error token.
C11_HexLiteral ==
    parsed.done /\ OneToken(argString) /\ IsHexForm(argString) =>
        IF AfterHexPrefix(argString) = << >>
        THEN parsed.dv = <<ErrorDV>>
        ELSE parsed.dv = <<IntDV(ValueMod32(AfterHexPrefix(argString), 16))>>

---------------------------------------------------------------------------
(* C12 *)

\* The step is a dispatch to _setWatchpoint that got past the argument test
WatchpointSet ==
    /\ LineStep
    /\ last'.command = "_setWatchpoint"
    /\ last'.out # <<"Arguments missing">>

\* C12: the memory shim is installed exactly once and before first use.  A
\* successful setWatchpoint installs the shim if and only if the CPU's
\* memory interface is not the shim yet, so the first one installs it and
\* no later one does; each head-inserts its address into the watchpoint
\* list; no other step installs the shim or changes the list; once the
\* shim is the memory interface it stays so; and whenever the list is not
\* empty the memory interface is the shim.
C12_ShimInstalledOnce ==
    [][/\ memory = "shim" => memory' = "shim"
       /\ watchpoints' # << >> => memory' = "shim"
       /\ WatchpointSet =>
              /\ watchpoints' =
                     <<ArgsOf(last'.line)[1].intValue>> \o watchpoints
              /\ memory' = "shim"
              /\ last'.installs = IF memory = "shim" THEN 0 ELSE 1
       /\ ~WatchpointSet =>
              /\ watchpoints' = watchpoints
              /\ memory' = memory
              /\ LineStep => last'.installs = 0]_vars

\* A second watchpoint was head-inserted without another installation.
C12_Witness ==
    /\ last.op = "line"
    /\ last.command = "_setWatchpoint"
    /\ Len(watchpoints) = 2
    /\ last.installs = 0
    /\ memory = "shim"

---------------------------------------------------------------------------
(* C13 *)

\* C13: a line that ends in "Arguments missing" or in "Command not found"
\* leaves the state Paused and the breakpoint list, the watchpoint list,
\* the memory interface and the CPU registers unchanged, runs no CPU step,
\* makes no memory load, and the REPL, back at its loop test with the state
\* Paused, goes on to read the next line.
C13_FailedLineChangesNothing ==
    [][/\ LineStep /\ last'.out \in {<<"Arguments missing">>,
                                     <<"Command not found">>} =>
              /\ state' = "DEBUGGER_PAUSED"
              /\ UNCHANGED <<breakpoints, watchpoints, memory, gprs, cpsrT>>
              /\ last'.steps = 0
              /\ last'.loads = 0
              /\ last'.installs = 0
              /\ pc' = "repl"
       /\ pc = "repl" /\ state = "DEBUGGER_PAUSED" /\ pc' # pc =>
              pc' = "read"]_vars

\* rh without an argument was answered with "Arguments missing" while both
\* lists held records.
C13_Witness ==
    /\ last.op = "line"
    /\ last.command = "_readHalfword"
    /\ last.out = <<"Arguments missing">>
    /\ breakpoints # << >>
    /\ watchpoints # << >>
    /\ state = "DEBUGGER_PAUSED"
    /\ pc = "repl"

---------------------------------------------------------------------------
(* C14 *)

\* C14: a typed line is appended to the history only when its dispatch
\* succeeded.  A typed non-blank line whose command is found and which does
\* not report "Arguments missing" is appended once, as the most recent
\* entry; a line that reports "Parse error", "Command not found" or
\* "Arguments missing" is not appended; a blank line appends nothing; no
\* other step changes the history.
C14_HistoryOnlyOnSuccess ==
    [][IF /\ LineStep
          /\ ~last'.blank
          /\ last'.command # "none"
          /\ last'.out # <<"Arguments missing">>
       THEN history' = Take(<<last'.line>> \o history, MaxHistory)
       ELSE history' = history]_vars

---------------------------------------------------------------------------
(* C15 *)

---------------------------------------------------------------------------
(* C16 *)

\* C16: Exiting is recoverable.  The end of the input stream in the REPL
\* makes the state Exiting; from then until the run entry point has
\* returned no line is dispatched, the breakpoint list stays as it is and
\* the test of the outer loop leaves the entry point; the next call finds
\* the state Exiting and makes it Running before the loop body; and from
\* that call on no line is read before a CPU step has run.
C16_ExitingRecoverable ==
    [][/\ pc = "read" /\ pc' = "outer" => state' = "DEBUGGER_EXITING"
       /\ resume = "exited" =>
              /\ breakpoints' = breakpoints
              /\ ~LineStep
              /\ pc = "outer" /\ pc' # pc => pc' = "idle"
              /\ pc = "idle" /\ pc' # pc => pc' = "convert"
       /\ pc = "convert" /\ pc' # pc => state' = "DEBUGGER_RUNNING"
       /\ resume = "called" => pc' # "read"]_vars

---------------------------------------------------------------------------
(* C17 *)

\* The commands with their aliases and the handler each alias reaches
AliasGroups ==
    { [names |-> {<<"b">>, <<"b", "r", "e", "a", "k">>},
       handler |-> "_setBreakpoint"],
      [names |-> {<<"c">>, <<"c", "o", "n", "t", "i", "n", "u", "e">>},
       handler |-> "_continue"],
      [names |-> {<<"i">>, <<"i", "n", "f", "o">>,
                  <<"s", "t", "a", "t", "u", "s">>},
       handler |-> "_printStatus"],
      [names |-> {<<"n">>, <<"n", "e", "x", "t">>}, handler |-> "_next"],
      [names |-> {<<"p">>, <<"p", "r", "i", "n", "t">>},
       handler |-> "_print"],
      [names |-> {<<"p", "/", "x">>, <<"p", "r", "i", "n", "t", "/", "x">>},
       handler |-> "_printHex"],
      [names |-> {<<"q">>, <<"q", "u", "i", "t">>}, handler |-> "_quit"],
      [names |-> {<<"r", "b">>}, handler |-> "_readByte"],
      [names |-> {<<"r", "h">>}, handler |-> "_readHalfword"],
      [names |-> {<<"r", "w">>}, handler |-> "_readWord"],
      [names |-> {<<"w">>, <<"w", "a", "t", "c", "h">>},
       handler |-> "_setWatchpoint"],
      [names |-> {<<"x">>}, handler |-> "_breakInto"] }

\* The two characters are equal or the two cases of one letter
SameLetter(a, b) ==
    a = b \/ \E i \in 1..26 : {a, b} = {UpperAlpha[i], LowerAlpha[i]}

\* The two words have the same length and are equal ignoring letter case
EqualIgnoringCase(a, b) ==
    Len(a) = Len(b) /\ \A i \in 1..Len(a) : SameLetter(a[i], b[i])

\* The alias groups with a name the word equals ignoring letter case
GroupsOf(word) ==
    { g \in AliasGroups : \E n \in g.names : EqualIgnoringCase(n, word) }

\* C17: command lookup is a case-insensitive exact-length match.  A line
\* whose command token equals a name of the table ignoring letter case, and
\* has its length, is dispatched to the handler of that name, the same for
\* every alias of a command; every other token, a proper prefix or a
\* proper extension of a name among them, reports "Command not found" and
\* no handler is called.
C17_LookupExactIgnoringCase ==
    last.op = "line" =>
        LET word == CommandOf(last.line)
        IN  IF GroupsOf(word) # {}
            THEN \A g \in GroupsOf(word) : last.command = g.handler
            ELSE /\ last.command = "none"
                 /\ last.out = <<"Command not found">>

\* "Print/x 4" reached the handler of p/x.
C17_Witness ==
    /\ last.op = "line"
    /\ last.line = <<"P", "r", "i", "n", "t", "/", "x", " ", "4">>
    /\ last.command = "_printHex"

---------------------------------------------------------------------------
(* C18 *)

\* The token is a decimal literal: a digit other than 0, then digits
IsDecimalLiteral(tok) ==
    /\ Len(tok) >= 1
    /\ tok[1] \in DecDigits \ {"0"}
    /\ \A i \in 1..Len(tok) : tok[i] \in DecDigits

\* The token is a hex literal: a hex prefix, then one hex digit or more
IsHexLiteral(tok) == IsHexForm(tok) /\ AfterHexPrefix(tok) # << >>

\* C18: the accumulation of decimal and hex literals wraps at 32 bits
\* without a guard.  A single token that is a decimal or a hex literal, of
\* any length, parses to one Integer token whose value is the number the
\* literal denotes modulo 2^32; none is rejected for being too large.
C18_LiteralsWrap ==
    parsed.done /\ OneToken(argString) =>
        /\ IsDecimalLiteral(argString) =>
               parsed.dv = <<IntDV(ValueMod32(argString, 10))>>
        /\ IsHexLiteral(argString) =>
               parsed.dv =
                   <<IntDV(ValueMod32(AfterHexPrefix(argString), 16))>>

\* The decimal literal 4294967301, five more than 2^32, parsed to 5.
C18_Witness ==
    /\ parsed.done
    /\ argString = <<"4", "2", "9", "4", "9", "6", "7", "3", "0", "1">>
    /\ parsed.dv = <<IntDV(WordOf(5))>>

---------------------------------------------------------------------------
(* C19 *)

\* The tokens of the string: what lies between its spaces, the empty
\* tokens included
RECURSIVE TokensOf(_)
TokensOf(str) ==
    IF FirstSpace(str) = 0 THEN <<str>>
    ELSE <<SubSeq(str, 1, FirstSpace(str) - 1)>>
             \o TokensOf(SubSeq(str, FirstSpace(str) + 1, Len(str)))

\* The token is a complete token of the grammar
WellFormed(tok) ==
    tok \in RegisterTokens \/ IsDecimalLiteral(tok) \/ IsHexLiteral(tok)

\* The token is the beginning of a register name and no more
Incomplete(tok) == tok \in {<<"r">>, <<"p">>, <<"s">>, <<"l">>}

\* The string holds an incomplete token, or an empty token before a space
\* (a leading space, or two spaces in a row)
HasIncompleteOrEmpty(str) ==
    LET toks == TokensOf(str)
    IN  \E i \in 1..Len(toks) :
            Incomplete(toks[i]) \/ (toks[i] = << >> /\ i < Len(toks))

\* C19: every Integer token of the result stands for a complete token of
\* the input.  An input with an incomplete token ("r", "p", "s", "l") or
\* with an empty token before a space yields a result with an Error token,
\* and the result never holds more Integer tokens than the input holds
\* well-formed tokens; it holds as many when every token is well formed.
C19_IntegersAreCompleteTokens ==
    parsed.done =>
        LET toks == TokensOf(argString)
            ints == { i \in 1..Len(parsed.dv) :
                        parsed.dv[i].type = "INT_TYPE" }
            good == { i \in 1..Len(toks) : WellFormed(toks[i]) }
        IN  /\ HasIncompleteOrEmpty(argString) =>
                   \E i \in 1..Len(parsed.dv) :
                       parsed.dv[i].type = "ERROR_TYPE"
            /\ Cardinality(ints) <= Cardinality(good)
            /\ Cardinality(good) = Len(toks) =>
                   Cardinality(ints) = Len(toks)

---------------------------------------------------------------------------
(* C20 *)

\* C20: continue always makes progress past a breakpoint.  Every breakpoint
\* check comes right after a CPU step of the free-run loop, so between the
\* dispatch of continue and the next check a step has run; and the state
\* leaves Running for Paused only by a breakpoint check or by SIGINT, so a
\* breakpoint that matches the program counter when continue is issued
\* cannot pause again before a step.
C20_ContinueStepsFirst ==
    [][/\ CheckStep => last.op = "step" /\ last.steps = 1
       /\ last.op = "line" /\ last.command = "_continue" => ~CheckStep
       /\ state = "DEBUGGER_RUNNING" /\ state' = "DEBUGGER_PAUSED" =>
              CheckStep \/ UNCHANGED <<pc, last>>]_vars

\* A breakpoint was hit, continue was issued while it still matched the
\* program counter, a step ran and the check hit again.
C20_Witness ==
    /\ last.op = "check"
    /\ last.out = <<"Hit breakpoint">>
    /\ hits = 2
    /\ history = << <<"c">> >>
    /\ entry.command = "_continue"
    /\ ~entry.failedAfter

===========================================================================
